---- MODULE Spec2Model ----
(***************************************************************************)
(* Model of the retrieval pipeline of retrieval-augmention/example6:       *)
(* characterTextSplitter, cosineSimilarity, search, the post-processing of *)
(* completions, the ingestion of the chunks and the session loop of main.  *)
(*                                                                         *)
(* Strings are sequences of one-character strings, so that strings.Split   *)
(* and strings.Join are computed and not assumed.  Vectors hold small      *)
(* integers, for which the float64 sums and products of cosineSimilarity   *)
(* are exact; the quotient sumA / (Sqrt(s1) * Sqrt(s2)) is kept as the     *)
(* triple of its operands and compared as a real number.                   *)
(***************************************************************************)
EXTENDS Integers, Sequences, FiniteSets, TLC

VARIABLES
    pc,               \* position of the running routine
    text,             \* characterTextSplitter: argument text
    splitSize,        \* characterTextSplitter: argument splitSize
    overlapSize,      \* characterTextSplitter: argument overlapSize
    tokens,           \* characterTextSplitter: local tokens
    i,                \* characterTextSplitter: loop variable i
    chunks,           \* characterTextSplitter: local chunks (the result)
    vecA,             \* cosineSimilarity: argument a
    vecB,             \* cosineSimilarity: argument b
    cosOut,           \* cosineSimilarity: the returned (cosine, err)
    vectorizedChunks, \* search: argument chunks
    embedding,        \* search: argument embedding
    searchOut,        \* search: the returned (string, error)
    rawText,          \* post-processing: response.Choices[0].Text
    stopList,         \* post-processing: the stop markers of the call site
    postOut,          \* post-processing: the value of completion
    batches,          \* main: the co.Embed calls issued, as chunk ranges
    convo,            \* main: the chat log
    input,            \* main: the line read in this turn
    calls,            \* main: the remote calls and searches of this turn
    completion,       \* main: the answer of this turn
    printed,          \* main: the answers printed
    failure           \* main: the operation whose failure ended the run

vars == <<pc, text, splitSize, overlapSize, tokens, i, chunks,
          vecA, vecB, cosOut, vectorizedChunks, embedding, searchOut,
          rawText, stopList, postOut,
          batches, convo, input, calls, completion, printed, failure>>

splitVars == <<text, splitSize, overlapSize, tokens, i, chunks>>
cosVars == <<vecA, vecB, cosOut>>
searchVars == <<vectorizedChunks, embedding, searchOut>>
postVars == <<rawText, stopList, postOut>>
mainVars == <<batches, convo, input, calls, completion, printed, failure>>

----------------------------------------------------------------------------
(* Bounds of the model. *)

MaxTextLen == 5
MaxSplit == 3
MaxChunks == 8
MaxVecLen == 2
MaxCoord == 2
MaxCorpus == 2
SearchVecLen == 2
MaxPostLen == 4
MaxIngest == 41
MaxTurns == 5
MaxStops == 2

----------------------------------------------------------------------------
(* Strings. *)

Space == " "
Alphabet == {"a", "b", Space}

SeqsUpTo(S, n) == UNION {[1..m -> S] : m \in 0..n}

ExampleText == <<"a", " ", "b", " ", "c", " ", "d", " ", "e", " ", "f">>

Texts == SeqsUpTo(Alphabet, MaxTextLen) \cup {ExampleText}

RECURSIVE Split(_, _)
Split(s, sep) ==
    IF \A k \in 1..Len(s) : s[k] # sep
    THEN <<s>>
    ELSE LET p == CHOOSE k \in 1..Len(s) :
                     s[k] = sep /\ \A j \in 1..(k - 1) : s[j] # sep
         IN <<SubSeq(s, 1, p - 1)>> \o Split(SubSeq(s, p + 1, Len(s)), sep)

RECURSIVE Join(_, _)
Join(elems, sep) ==
    IF Len(elems) = 0 THEN <<>>
    ELSE IF Len(elems) = 1 THEN elems[1]
    ELSE elems[1] \o <<sep>> \o Join(Tail(elems), sep)

\* tokens[lo:hi] of Go, for 0 <= lo <= hi <= len(tokens)
Slice(s, lo, hi) == SubSeq(s, lo + 1, hi)

----------------------------------------------------------------------------
(* characterTextSplitter *)

\* the value of the result variables of a routine that has not returned
NoCosOut == [cosine |-> "none", err |-> "none", divided |-> FALSE]
NoSearchOut == [chunk |-> "none", err |-> "none"]

\* the post-processing and main are not running
PostIdle == rawText = <<>> /\ stopList = <<>> /\ postOut = <<>>
MainIdle ==
    /\ batches = <<>> /\ convo = <<>> /\ input = <<>> /\ calls = <<>>
    /\ completion = <<>> /\ printed = <<>> /\ failure = "none"

InitSplit ==
    /\ pc = "split_call"
    /\ text \in Texts
    /\ splitSize \in 1..MaxSplit
    /\ overlapSize \in 0..MaxSplit
    /\ tokens = <<>>
    /\ i = 0
    /\ chunks = <<>>
    /\ vecA = <<>> /\ vecB = <<>> /\ cosOut = NoCosOut
    /\ vectorizedChunks = <<>> /\ embedding = <<>> /\ searchOut = NoSearchOut
    /\ PostIdle /\ MainIdle

\* SplitCall keeping only the non-empty tokens (strings.Fields)
SplitCall_FieldsMut ==
    /\ pc = "split_call"
    /\ chunks' = <<>>
    /\ tokens' = SelectSeq(Split(text, Space), LAMBDA t : t # <<>>)
    /\ i' = 0
    /\ pc' = "split_loop"
    /\ UNCHANGED <<text, splitSize, overlapSize, cosVars, searchVars, postVars, mainVars>>

\* chunks := []string{}; tokens := strings.Split(text, " "); i := 0
SplitCall ==
    /\ pc = "split_call"
    /\ chunks' = <<>>
    /\ tokens' = Split(text, Space)
    /\ i' = 0
    /\ pc' = "split_loop"
    /\ UNCHANGED <<text, splitSize, overlapSize, cosVars, searchVars, postVars, mainVars>>

\* the end of the window of one iteration, clamped to len(tokens)
SplitEnd ==
    LET end == i + splitSize - overlapSize
    IN IF end > Len(tokens) THEN Len(tokens) ELSE end

\* SplitLoop with the loop advancing by splitSize instead of
\* splitSize - overlapSize
SplitLoop_SkipMut ==
    /\ pc = "split_loop"
    /\ i < Len(tokens)
    /\ SplitEnd >= i
    /\ Len(chunks) < MaxChunks
    /\ chunks' = Append(chunks, Join(Slice(tokens, i, SplitEnd), Space))
    /\ i' = i + splitSize
    /\ UNCHANGED <<pc, text, splitSize, overlapSize, tokens, cosVars, searchVars, postVars, mainVars>>

\* one iteration of the loop whose slice expression tokens[i:end] is in range
SplitLoop ==
    /\ pc = "split_loop"
    /\ i < Len(tokens)
    /\ SplitEnd >= i
    /\ Len(chunks) < MaxChunks
    /\ chunks' = Append(chunks, Join(Slice(tokens, i, SplitEnd), Space))
    /\ i' = i + splitSize - overlapSize
    /\ UNCHANGED <<pc, text, splitSize, overlapSize, tokens, cosVars, searchVars, postVars, mainVars>>

\* one iteration whose slice expression tokens[i:end] has end < i:
\* the Go runtime panics (slice bounds out of range)
SplitPanic ==
    /\ pc = "split_loop"
    /\ i < Len(tokens)
    /\ SplitEnd < i
    /\ pc' = "split_panic"
    /\ UNCHANGED <<splitVars, cosVars, searchVars, postVars, mainVars>>

\* the loop condition i < len(tokens) fails: return chunks
SplitReturn ==
    /\ pc = "split_loop"
    /\ i >= Len(tokens)
    /\ pc' = "split_done"
    /\ UNCHANGED <<splitVars, cosVars, searchVars, postVars, mainVars>>

NextSplit == SplitCall \/ SplitLoop \/ SplitPanic \/ SplitReturn

SpecSplit == InitSplit /\ [][NextSplit]_vars

\* the call runs on: a statement that can execute does execute
SpecSplitFair == SpecSplit /\ WF_vars(NextSplit)

----------------------------------------------------------------------------
(* Claims about characterTextSplitter *)

Step == splitSize - overlapSize

Min(x, y) == IF x < y THEN x ELSE y

\* the window of splitSize tokens that starts at token index (k-1)*Step
\* (k counts the chunks from 1), cut at the end of the tokens
WindowTokens(k) ==
    SubSeq(Split(text, Space), (k - 1) * Step + 1,
           Min((k - 1) * Step + splitSize, Len(Split(text, Space))))

ExampleChunks ==
    << <<"a", " ", "b", " ", "c">>, <<"c", " ", "d", " ", "e">>, <<"e", " ", "f">> >>

\* C1: for chunkSize > overlap >= 0 chunk k of the result is the window of
\* chunkSize tokens starting at token k*(chunkSize-overlap), joined with
\* single spaces; "a b c d e f" with (3, 1) gives ["a b c", "c d e", "e f"].
C1_SlidingWindow ==
    (pc = "split_done" /\ overlapSize < splitSize) =>
        /\ \A k \in 1..Len(chunks) : chunks[k] = Join(WindowTokens(k), Space)
        /\ (text = ExampleText /\ splitSize = 3 /\ overlapSize = 1)
               => chunks = ExampleChunks

DropFirst(s, n) == SubSeq(s, n + 1, Len(s))

RECURSIVE Rejoined(_)
Rejoined(k) ==
    IF k > Len(chunks) THEN <<>>
    ELSE (IF k = 1 THEN Split(chunks[k], Space)
          ELSE DropFirst(Split(chunks[k], Space), overlapSize))
         \o Rejoined(k + 1)

\* C2: for overlap < chunkSize, dropping the first `overlap` tokens of every
\* chunk but the first and concatenating the rest gives the tokens of the text.
C2_Reconstructs ==
    (pc = "split_done" /\ overlapSize < splitSize) =>
        Rejoined(1) = Split(text, Space)

\* the lengths len for which chunk k is the run of len tokens that starts
\* at token index (k-1)*Step
ChunkRuns(k) ==
    {len \in 0..splitSize :
        /\ (k - 1) * Step + len <= Len(Split(text, Space))
        /\ chunks[k] = Join(SubSeq(Split(text, Space), (k - 1) * Step + 1,
                                   (k - 1) * Step + len), Space)}

\* C3: for overlap < chunkSize the chunks are in document order, chunk k starts
\* at token index k*(chunkSize-overlap), no chunk holds more than chunkSize
\* tokens, and every token index of the input lies in some chunk.
C3_OrderedBoundedCover ==
    (pc = "split_done" /\ overlapSize < splitSize) =>
        /\ \A k \in 1..Len(chunks) :
              /\ ChunkRuns(k) # {}
              /\ Len(Split(chunks[k], Space)) <= splitSize
        /\ \A j \in 1..Len(Split(text, Space)) :
              \E k \in 1..Len(chunks) : \E len \in ChunkRuns(k) :
                  (k - 1) * Step < j /\ j <= (k - 1) * Step + len

C3_Witness ==
    /\ pc = "split_done"
    /\ 0 < overlapSize /\ overlapSize < splitSize
    /\ Len(chunks) >= 3
    /\ \A j, k \in 1..Len(tokens) : j # k => tokens[j] # tokens[k]

\* C4: with overlap >= chunkSize the call fails fast: it returns no chunks,
\* produces no chunk at all and never crashes.
C4_FailsFast ==
    (overlapSize >= splitSize) => (pc # "split_panic" /\ chunks = <<>>)

\* the number of tokens of the text: one more than its spaces
TokenCount == Cardinality({k \in 1..Len(text) : text[k] = Space}) + 1

\* C22: for overlap < chunkSize the call terminates and returns
\* ceil(n / (chunkSize - overlap)) chunks for the n >= 1 tokens of the text:
\* never an empty list, and the one chunk "" for the empty text.
C22_TerminatesWithCeilChunks ==
    /\ [](overlapSize < splitSize => pc # "split_panic")
    /\ []((pc = "split_done" /\ overlapSize < splitSize) =>
             /\ Len(chunks) = (TokenCount + Step - 1) \div Step
             /\ chunks # <<>>
             /\ (text = <<>>) => chunks = << <<>> >>)
    /\ (overlapSize < splitSize) ~> (pc = "split_done")

C22_Witness ==
    /\ pc = "split_done"
    /\ 0 < overlapSize /\ overlapSize < splitSize
    /\ Step = 2
    /\ TokenCount = 5
    /\ Len(chunks) = 3
    /\ \E k \in 1..Len(tokens) : tokens[k] = <<>>

----------------------------------------------------------------------------
(* Float values: num / (Sqrt(s1) * Sqrt(s2)) with s1, s2 > 0 *)

FloatLit(n) == [num |-> n, s1 |-> 1, s2 |-> 1]

SgnSq(n) == IF n >= 0 THEN n * n ELSE -(n * n)

\* x > y, by the strictly increasing map t |-> sign(t) * t^2
Gt(x, y) == SgnSq(x.num) * (y.s1 * y.s2) > SgnSq(y.num) * (x.s1 * x.s2)

SameValue(x, y) == ~Gt(x, y) /\ ~Gt(y, x)

\* math.Pow(x, 2) computed as the double of x
Pow2_DoubleMut(x) == x * 2

\* math.Pow(x, 2)
Pow2(x) == x * x

----------------------------------------------------------------------------
(* cosineSimilarity *)

NilErr == "nil"
NullVectorErr == "vectors should not be null (all zeros)"

Vectors == UNION {[1..m -> (-MaxCoord)..MaxCoord] : m \in 0..MaxVecLen}

\* CosLoop adding the square of b[k] to s1 for the indices beyond a
RECURSIVE CosLoop_SwapMut(_, _, _, _, _)
CosLoop_SwapMut(a, b, count, k, acc) ==
    IF k >= count THEN acc
    ELSE IF k >= Len(a)
         THEN CosLoop_SwapMut(a, b, count, k + 1,
                              [acc EXCEPT !.s1 = @ + Pow2(b[k + 1])])
    ELSE IF k >= Len(b)
         THEN CosLoop_SwapMut(a, b, count, k + 1,
                              [acc EXCEPT !.s1 = @ + Pow2(a[k + 1])])
    ELSE CosLoop_SwapMut(a, b, count, k + 1,
                         [sumA |-> acc.sumA + a[k + 1] * b[k + 1],
                          s1 |-> acc.s1 + Pow2(a[k + 1]),
                          s2 |-> acc.s2 + Pow2(b[k + 1])])

\* the loop for k := 0; k < count; k++ from iteration k on; acc holds
\* sumA, s1 and s2; a[k] of Go is a[k + 1] here
RECURSIVE CosLoop(_, _, _, _, _)
CosLoop(a, b, count, k, acc) ==
    IF k >= count THEN acc
    ELSE IF k >= Len(a)
         THEN CosLoop(a, b, count, k + 1,
                      [acc EXCEPT !.s2 = @ + Pow2(b[k + 1])])
    ELSE IF k >= Len(b)
         THEN CosLoop(a, b, count, k + 1,
                      [acc EXCEPT !.s1 = @ + Pow2(a[k + 1])])
    ELSE CosLoop(a, b, count, k + 1,
                 [sumA |-> acc.sumA + a[k + 1] * b[k + 1],
                  s1 |-> acc.s1 + Pow2(a[k + 1]),
                  s2 |-> acc.s2 + Pow2(b[k + 1])])

\* CosReturn with the test s1 == 0 && s2 == 0
CosReturn_AndMut(acc) ==
    IF acc.s1 = 0 /\ acc.s2 = 0
    THEN [cosine |-> FloatLit(0), err |-> NullVectorErr, divided |-> FALSE]
    ELSE [cosine |-> [num |-> acc.sumA, s1 |-> acc.s1, s2 |-> acc.s2],
          err |-> NilErr, divided |-> TRUE]

\* the return statements of cosineSimilarity; divided tells whether the
\* division of the last line was executed
CosReturn(acc) ==
    IF acc.s1 = 0 \/ acc.s2 = 0
    THEN [cosine |-> FloatLit(0), err |-> NullVectorErr, divided |-> FALSE]
    ELSE [cosine |-> [num |-> acc.sumA, s1 |-> acc.s1, s2 |-> acc.s2],
          err |-> NilErr, divided |-> TRUE]

\* cosineSimilarity with count := length_a
cosineSimilarity_CountMut(a, b) ==
    CosReturn(CosLoop(a, b, Len(a), 0, [sumA |-> 0, s1 |-> 0, s2 |-> 0]))

cosineSimilarity(a, b) ==
    LET count == IF Len(a) > Len(b) THEN Len(a) ELSE Len(b)
    IN CosReturn(CosLoop(a, b, count, 0, [sumA |-> 0, s1 |-> 0, s2 |-> 0]))

InitCos ==
    /\ pc = "cos_call"
    /\ vecA \in Vectors
    /\ vecB \in Vectors
    /\ cosOut = NoCosOut
    /\ text = <<>> /\ splitSize = 0 /\ overlapSize = 0
    /\ tokens = <<>> /\ i = 0 /\ chunks = <<>>
    /\ vectorizedChunks = <<>> /\ embedding = <<>> /\ searchOut = NoSearchOut
    /\ PostIdle /\ MainIdle

CosCall ==
    /\ pc = "cos_call"
    /\ cosOut' = cosineSimilarity(vecA, vecB)
    /\ pc' = "cos_done"
    /\ UNCHANGED <<vecA, vecB, splitVars, searchVars, postVars, mainVars>>

NextCos == CosCall

SpecCos == InitCos /\ [][NextCos]_vars

----------------------------------------------------------------------------
(* search *)

\* the text of the k-th chunk of the corpus
ChunkText(k) == <<"c", ToString(k)>>

\* the coordinates of the vectors of the corpus and of the query
SearchCoords == {-1, 0, 1}

SearchVectors == [1..SearchVecLen -> SearchCoords]

\* the query vectors: flipping the sign of one coordinate in the query and in
\* every corpus vector changes no similarity, so non-negative queries suffice
Queries == [1..SearchVecLen -> {0, 1}]

Corpora ==
    UNION {{[k \in 1..n |-> [Chunk |-> ChunkText(k), Vector |-> vs[k]]] :
               vs \in [1..n -> SearchVectors]} : n \in 0..MaxCorpus}

\* SearchLoop with the test distance >= maxSimilarity
RECURSIVE SearchLoop_GeMut(_, _, _, _, _)
SearchLoop_GeMut(vcs, emb, k, outChunk, maxSimilarity) ==
    IF k > Len(vcs) THEN [chunk |-> outChunk, err |-> NilErr]
    ELSE LET r == cosineSimilarity(vcs[k].Vector, emb)
         IN IF r.err # NilErr THEN [chunk |-> <<>>, err |-> r.err]
            ELSE IF ~Gt(maxSimilarity, r.cosine)
                 THEN SearchLoop_GeMut(vcs, emb, k + 1, vcs[k].Chunk, r.cosine)
                 ELSE SearchLoop_GeMut(vcs, emb, k + 1, outChunk, maxSimilarity)

\* SearchLoop returning the best chunk so far with the error
RECURSIVE SearchLoop_PartialMut(_, _, _, _, _)
SearchLoop_PartialMut(vcs, emb, k, outChunk, maxSimilarity) ==
    IF k > Len(vcs) THEN [chunk |-> outChunk, err |-> NilErr]
    ELSE LET r == cosineSimilarity(vcs[k].Vector, emb)
         IN IF r.err # NilErr THEN [chunk |-> outChunk, err |-> r.err]
            ELSE IF Gt(r.cosine, maxSimilarity)
                 THEN SearchLoop_PartialMut(vcs, emb, k + 1, vcs[k].Chunk, r.cosine)
                 ELSE SearchLoop_PartialMut(vcs, emb, k + 1, outChunk, maxSimilarity)

\* the loop for _, c := range chunks from entry k on (k counts from 1)
RECURSIVE SearchLoop(_, _, _, _, _)
SearchLoop(vcs, emb, k, outChunk, maxSimilarity) ==
    IF k > Len(vcs) THEN [chunk |-> outChunk, err |-> NilErr]
    ELSE LET r == cosineSimilarity(vcs[k].Vector, emb)
         IN IF r.err # NilErr THEN [chunk |-> <<>>, err |-> r.err]
            ELSE IF Gt(r.cosine, maxSimilarity)
                 THEN SearchLoop(vcs, emb, k + 1, vcs[k].Chunk, r.cosine)
                 ELSE SearchLoop(vcs, emb, k + 1, outChunk, maxSimilarity)

\* search with maxSimilarity starting below every similarity
search_NegInitMut(vcs, emb) == SearchLoop(vcs, emb, 1, <<>>, FloatLit(-2))

search(vcs, emb) == SearchLoop(vcs, emb, 1, <<>>, FloatLit(0))

InitSearch ==
    /\ pc = "search_call"
    /\ vectorizedChunks \in Corpora
    /\ embedding \in Queries
    /\ searchOut = NoSearchOut
    /\ text = <<>> /\ splitSize = 0 /\ overlapSize = 0
    /\ tokens = <<>> /\ i = 0 /\ chunks = <<>>
    /\ vecA = <<>> /\ vecB = <<>> /\ cosOut = NoCosOut
    /\ PostIdle /\ MainIdle

SearchCall ==
    /\ pc = "search_call"
    /\ searchOut' = search(vectorizedChunks, embedding)
    /\ pc' = "search_done"
    /\ UNCHANGED <<vectorizedChunks, embedding, splitVars, cosVars, postVars, mainVars>>

NextSearch == SearchCall

SpecSearch == InitSearch /\ [][NextSearch]_vars

----------------------------------------------------------------------------
(* Claims about search *)

AllZero(v) == \A k \in 1..Len(v) : v[k] = 0

\* the similarity of corpus entry k to the query
Sim(k) == cosineSimilarity(vectorizedChunks[k].Vector, embedding).cosine

Entries == 1..Len(vectorizedChunks)

NoneDegenerate ==
    /\ ~AllZero(embedding)
    /\ \A k \in Entries : ~AllZero(vectorizedChunks[k].Vector)

Positive(k) == Gt(Sim(k), FloatLit(0))

IsMaxAt(k) == \A j \in Entries : ~Gt(Sim(j), Sim(k))

FirstMax == CHOOSE k \in Entries : IsMaxAt(k) /\ \A j \in 1..(k - 1) : ~IsMaxAt(j)

ExampleCorpus ==
    << [Chunk |-> ChunkText(1), Vector |-> <<1, 0>>],
       [Chunk |-> ChunkText(2), Vector |-> <<0, 1>>] >>

\* C5: when no entry is degenerate and the maximum similarity is strictly
\* positive, search returns the chunk of the first entry, in corpus order, that
\* attains the maximum; a single entry of positive similarity is returned
\* whatever its position; [(c1,[1,0]), (c2,[0,1])] queried with [1,0] gives c1.
C5_FirstMaximum ==
    (pc = "search_done" /\ Entries # {} /\ NoneDegenerate) =>
        /\ Positive(FirstMax) =>
              searchOut = [chunk |-> vectorizedChunks[FirstMax].Chunk, err |-> NilErr]
        /\ \A k \in Entries :
              (Positive(k) /\ \A j \in Entries \ {k} : ~Positive(j)) =>
                  searchOut.chunk = vectorizedChunks[k].Chunk
        /\ (vectorizedChunks = ExampleCorpus /\ embedding = <<1, 0>>) =>
              searchOut.chunk = ChunkText(1)

C5_Witness ==
    /\ pc = "search_done"
    /\ Len(vectorizedChunks) = 2
    /\ NoneDegenerate
    /\ Positive(1)
    /\ SameValue(Sim(2), Sim(1))
    /\ vectorizedChunks[2].Vector # vectorizedChunks[1].Vector
    /\ searchOut.chunk = ChunkText(1)

\* C6: search returns the empty string and no error for the empty corpus,
\* whatever the query, and for a corpus without degenerate vector in which
\* every similarity is <= 0.
C6_EmptyResult ==
    (pc = "search_done") =>
        /\ Entries = {} => searchOut = [chunk |-> <<>>, err |-> NilErr]
        /\ (Entries # {} /\ NoneDegenerate /\ \A k \in Entries : ~Positive(k)) =>
              searchOut = [chunk |-> <<>>, err |-> NilErr]

C6_Witness ==
    /\ pc = "search_done"
    /\ Len(vectorizedChunks) >= 2
    /\ NoneDegenerate
    /\ \E k \in Entries : Gt(FloatLit(0), Sim(k))
    /\ \E k \in Entries : SameValue(Sim(k), FloatLit(0))
    /\ searchOut = [chunk |-> <<>>, err |-> NilErr]

\* C7: if the similarity computation fails for some entry (its vector or the
\* query has zero squared norm), search returns that error with the empty
\* text, whatever was scored before.
C7_ErrorAborts ==
    (/\ pc = "search_done"
     /\ Entries # {}
     /\ (AllZero(embedding) \/ \E k \in Entries : AllZero(vectorizedChunks[k].Vector))) =>
        searchOut = [chunk |-> <<>>, err |-> NullVectorErr]

C7_Witness ==
    /\ pc = "search_done"
    /\ Len(vectorizedChunks) = 2
    /\ ~AllZero(embedding)
    /\ ~AllZero(vectorizedChunks[1].Vector) /\ Positive(1)
    /\ AllZero(vectorizedChunks[2].Vector)
    /\ searchOut = [chunk |-> <<>>, err |-> NullVectorErr]

----------------------------------------------------------------------------
(* Claims about cosineSimilarity *)

\* C8: cosineSimilarity fails with the null-vector error, without dividing,
\* exactly when a or b has zero squared norm (all zeros, or empty); otherwise
\* it returns the quotient and no error.
C8_DegenerateExactly ==
    (pc = "cos_done") =>
        /\ (cosOut.err # NilErr) <=> (AllZero(vecA) \/ AllZero(vecB))
        /\ (cosOut.err # NilErr) =>
              (cosOut.err = NullVectorErr /\ ~cosOut.divided)
        /\ (cosOut.err = NilErr) =>
              (cosOut.divided /\ cosOut.cosine.s1 > 0 /\ cosOut.cosine.s2 > 0)

C8_Witness ==
    /\ pc = "cos_done"
    /\ Len(vecA) = 2 /\ AllZero(vecA)
    /\ ~AllZero(vecB)
    /\ cosOut.err = NullVectorErr
    /\ ~cosOut.divided

\* C9: cosineSimilarity(a, b) and cosineSimilarity(b, a) have the same
\* outcome, also for vectors of different lengths: the same error, or the same
\* value from the same dot product and the swapped squared norms.
C9_Symmetric ==
    (pc = "cos_done") =>
        LET r == cosineSimilarity(vecB, vecA)
        IN /\ r.err = cosOut.err
           /\ (cosOut.err = NilErr) =>
                 /\ r.cosine.num = cosOut.cosine.num
                 /\ r.cosine.s1 = cosOut.cosine.s2
                 /\ r.cosine.s2 = cosOut.cosine.s1
                 /\ SameValue(r.cosine, cosOut.cosine)

C9_Witness ==
    /\ pc = "cos_done"
    /\ Len(vecA) < Len(vecB)
    /\ cosOut.err = NilErr
    /\ cosOut.cosine.num # 0
    /\ cosOut.cosine.s1 # cosOut.cosine.s2

\* C10: for v with a non-zero component, cosineSimilarity(v, v) succeeds with
\* the dot product equal to both squared norms, that is with the value 1.
C10_SelfSimilarityOne ==
    (pc = "cos_done" /\ vecA = vecB /\ ~AllZero(vecA)) =>
        /\ cosOut.err = NilErr
        /\ cosOut.cosine.num = cosOut.cosine.s1
        /\ cosOut.cosine.num = cosOut.cosine.s2
        /\ SameValue(cosOut.cosine, FloatLit(1))

C10_Witness ==
    /\ pc = "cos_done"
    /\ vecA = vecB
    /\ Len(vecA) = 2
    /\ \E k \in 1..2 : vecA[k] < 0
    /\ \E k \in 1..2 : vecA[k] > 1
    /\ cosOut.err = NilErr
    /\ SameValue(cosOut.cosine, FloatLit(1))

\* v extended with zeros to length n
ZeroPad(v, n) == [k \in 1..n |-> IF k <= Len(v) THEN v[k] ELSE 0]

MaxLen(a, b) == IF Len(a) > Len(b) THEN Len(a) ELSE Len(b)

\* C11: for vectors of unequal length cosineSimilarity reports no length
\* mismatch and reads no index beyond a vector (an application outside the
\* domain of vecA or vecB is an evaluation error): its outcome is the outcome
\* on the two vectors with the shorter one extended with zeros.
C11_ZeroPadded ==
    (pc = "cos_done") =>
        /\ cosOut.err \in {NilErr, NullVectorErr}
        /\ cosOut = cosineSimilarity(ZeroPad(vecA, MaxLen(vecA, vecB)),
                                     ZeroPad(vecB, MaxLen(vecA, vecB)))

C11_Witness ==
    /\ pc = "cos_done"
    /\ Len(vecA) < Len(vecB)
    /\ vecB[Len(vecB)] # 0
    /\ cosOut.err = NilErr
    /\ cosOut.cosine.num # 0
    /\ cosOut.cosine.s2 > cosOut.cosine.s1

----------------------------------------------------------------------------
(* Post-processing of a completion: the loop over the stop markers and      *)
(* strings.TrimSpace                                                        *)

\* the stop markers of example6, of example1 and of two programs of example4
StopFull ==
    << <<"#">>, <<"i", "m", "p", "o", "r", "t">>, <<"H", "u", "m", "a", "n">>,
       <<"h", "u", "m", "a", "n">>, <<"A", "I", ":">> >>

\* the stop markers of the second program of example4
StopReduced == << <<"#">>, <<"i", "m", "p", "o", "r", "t">> >>

\* the stop markers of the scenario of the specification
StopHash == << <<"#">> >>

StopLists == {StopFull, StopReduced, StopHash}

PostAlphabet == {"#", "A", "I", ":", " ", "x"}

\* "The answer is 42 #extra stuff"
AnswerText ==
    <<"T", "h", "e", " ", "a", "n", "s", "w", "e", "r", " ", "i", "s", " ",
      "4", "2", " ", "#", "e", "x", "t", "r", "a", " ", "s", "t", "u", "f", "f">>

SampleTexts ==
    { AnswerText,
      <<"o", "k", " ", "H", "u", "m", "a", "n", ":", " ", "#">>,
      <<"\n", "o", "k", "\n", "i", "m", "p", "o", "r", "t", " ", "x">>,
      <<" ", "h", "u", "m", "a", "n", "e", " ", "A", "I", ":">>,
      <<"\t", "i", "m", "p", " ", "\n">> }

PostTexts == SeqsUpTo(PostAlphabet, MaxPostLen) \cup SampleTexts

\* sub occurs in s at the 0-based index p
OccursAt(s, sub, p) ==
    /\ p + Len(sub) <= Len(s)
    /\ \A k \in 1..Len(sub) : s[p + k] = sub[k]

\* strings.Index(s, sub)
Index(s, sub) ==
    IF \E p \in 0..Len(s) : OccursAt(s, sub, p)
    THEN CHOOSE p \in 0..Len(s) :
             OccursAt(s, sub, p) /\ \A q \in 0..(p - 1) : ~OccursAt(s, sub, q)
    ELSE -1

\* strings.Contains(s, sub)
Contains(s, sub) == Index(s, sub) >= 0

IsSpace(c) == c \in {" ", "\n", "\t", "\r"}

\* TrimSpace removing the leading white space only
TrimSpace_LeftMut(s) ==
    IF \A k \in 1..Len(s) : IsSpace(s[k]) THEN <<>>
    ELSE LET lo == CHOOSE k \in 1..Len(s) :
                       ~IsSpace(s[k]) /\ \A j \in 1..(k - 1) : IsSpace(s[j])
         IN SubSeq(s, lo, Len(s))

\* strings.TrimSpace(s)
TrimSpace(s) ==
    IF \A k \in 1..Len(s) : IsSpace(s[k]) THEN <<>>
    ELSE LET lo == CHOOSE k \in 1..Len(s) :
                       ~IsSpace(s[k]) /\ \A j \in 1..(k - 1) : IsSpace(s[j])
             hi == CHOOSE k \in 1..Len(s) :
                       ~IsSpace(s[k]) /\ \A j \in (k + 1)..Len(s) : IsSpace(s[j])
         IN SubSeq(s, lo, hi)

\* StopLoop leaving the loop after the first marker found
RECURSIVE StopLoop_BreakMut(_, _, _)
StopLoop_BreakMut(c, stop, k) ==
    IF k > Len(stop) THEN c
    ELSE IF Contains(c, stop[k])
         THEN SubSeq(c, 1, Index(c, stop[k]))
         ELSE StopLoop_BreakMut(c, stop, k + 1)

\* the loop for _, s := range stop from marker k on (k counts from 1);
\* completion[:p] of Go is SubSeq(c, 1, p)
RECURSIVE StopLoop(_, _, _)
StopLoop(c, stop, k) ==
    IF k > Len(stop) THEN c
    ELSE IF Contains(c, stop[k])
         THEN StopLoop(SubSeq(c, 1, Index(c, stop[k])), stop, k + 1)
         ELSE StopLoop(c, stop, k + 1)

\* the post-processing of a completion text
PostProcess(c, stop) == TrimSpace(StopLoop(c, stop, 1))

InitPost ==
    /\ pc = "post_call"
    /\ rawText \in PostTexts
    /\ stopList \in StopLists
    /\ postOut = <<>>
    /\ text = <<>> /\ splitSize = 0 /\ overlapSize = 0
    /\ tokens = <<>> /\ i = 0 /\ chunks = <<>>
    /\ vecA = <<>> /\ vecB = <<>> /\ cosOut = NoCosOut
    /\ vectorizedChunks = <<>> /\ embedding = <<>> /\ searchOut = NoSearchOut
    /\ MainIdle

PostCall ==
    /\ pc = "post_call"
    /\ postOut' = PostProcess(rawText, stopList)
    /\ pc' = "post_done"
    /\ UNCHANGED <<rawText, stopList, splitVars, cosVars, searchVars, mainVars>>

NextPost == PostCall

SpecPost == InitPost /\ [][NextPost]_vars

\* stop markers that overlap one another or are white space
AnyMarkers == { <<"#">>, <<"I">>, <<"A", "I", ":">>, <<" ">> }

\* the lists of the call sites and every list of up to MaxStops markers
AnyStopLists == SeqsUpTo(AnyMarkers, MaxStops) \cup StopLists

\* the post-processing of any text with any ordered list of markers
InitStops ==
    /\ pc = "post_call"
    /\ rawText \in PostTexts
    /\ stopList \in AnyStopLists
    /\ postOut = <<>>
    /\ text = <<>> /\ splitSize = 0 /\ overlapSize = 0
    /\ tokens = <<>> /\ i = 0 /\ chunks = <<>>
    /\ vecA = <<>> /\ vecB = <<>> /\ cosOut = NoCosOut
    /\ vectorizedChunks = <<>> /\ embedding = <<>> /\ searchOut = NoSearchOut
    /\ MainIdle

SpecStops == InitStops /\ [][NextPost]_vars

----------------------------------------------------------------------------
(* Claims about the post-processing *)

Markers == {stopList[k] : k \in 1..Len(stopList)}

Found == {k \in 1..Len(stopList) : Contains(rawText, stopList[k])}

\* the first marker, in the order of the list, that occurs in the text
FirstFound == CHOOSE k \in Found : \A j \in Found : k <= j

\* the least index at which some marker of the list occurs in the text
EarliestIndex ==
    CHOOSE p \in 0..Len(rawText) :
        /\ \E m \in Markers : Index(rawText, m) = p
        /\ \A m \in Markers : Index(rawText, m) >= 0 => Index(rawText, m) >= p

TheAnswer == <<"T", "h", "e", " ", "a", "n", "s", "w", "e", "r", " ", "i", "s", " ", "4", "2">>

\* C12 as stated: the text is cut once, before the first occurrence of the
\* first marker of the list that occurs in it, and trimmed; a text without
\* marker is only trimmed.
C12_FirstMarkerOnly ==
    (pc = "post_done") =>
        postOut = IF Found = {} THEN TrimSpace(rawText)
                  ELSE TrimSpace(SubSeq(rawText, 1,
                                        Index(rawText, stopList[FirstFound])))

\* C12 amended: the loop runs over the whole list and every marker found in
\* what is left cuts it again, so the text is cut before the earliest
\* occurrence of any marker of the call site's list, and trimmed; a text
\* without marker is only trimmed; "The answer is 42 #extra stuff" with ["#"]
\* gives "The answer is 42".
C12_EarliestMarker ==
    (pc = "post_done") =>
        /\ postOut = IF Found = {} THEN TrimSpace(rawText)
                     ELSE TrimSpace(SubSeq(rawText, 1, EarliestIndex))
        /\ (rawText = AnswerText /\ stopList = StopHash) => postOut = TheAnswer

C12_Witness ==
    /\ pc = "post_done"
    /\ Cardinality(Found) >= 2
    /\ EarliestIndex < Index(rawText, stopList[FirstFound])
    /\ EarliestIndex > 0
    /\ postOut # <<>>
    /\ Len(postOut) < EarliestIndex

\* s begins and ends with a character that is no white space, or is empty
IsTrimmed(s) == s = <<>> \/ (~IsSpace(s[1]) /\ ~IsSpace(s[Len(s)]))

\* t is s without its leading and trailing white space
IsTrimOf(t, s) ==
    \E lo \in 1..(Len(s) + 1) : \E hi \in (lo - 1)..Len(s) :
        /\ t = SubSeq(s, lo, hi)
        /\ IsTrimmed(t)
        /\ \A j \in 1..(lo - 1) : IsSpace(s[j])
        /\ \A j \in (hi + 1)..Len(s) : IsSpace(s[j])

\* C21: for every text and every ordered list of stop markers the
\* post-processed completion contains no marker of the list, is a prefix of
\* the text trimmed of leading and trailing white space, and is left unchanged
\* by a second post-processing.
C21_MarkerFreeTrimmedPrefix ==
    (pc = "post_done") =>
        /\ \A k \in 1..Len(stopList) : \A p \in 0..Len(postOut) :
              ~OccursAt(postOut, stopList[k], p)
        /\ \E n \in 0..Len(rawText) : IsTrimOf(postOut, SubSeq(rawText, 1, n))
        /\ PostProcess(postOut, stopList) = postOut

C21_Witness ==
    /\ pc = "post_done"
    /\ stopList = << <<"#">>, <<"I">> >>
    /\ rawText = <<" ", "x", "I", "#">>
    /\ postOut = <<"x">>

----------------------------------------------------------------------------
(* main: the embedding of the chunks                                        *)

\* the batch size of the requests to the embedding service
BatchSize == 20

\* the chunks returned by websiteChunks, n of them
WebsiteChunks(n) == [k \in 1..n |-> ChunkText(k)]

CorpusVecs == << <<1, 0>>, <<0, 1>>, <<1, 1>>, <<-1, 1>> >>

\* the embedding service: the vector of a chunk text
EmbedVec(t) ==
    LET k == CHOOSE k \in 1..(MaxIngest + 1) : ChunkText(k) = t
    IN CorpusVecs[((k - 1) % Len(CorpusVecs)) + 1]

\* res.Embeddings of a successful co.Embed call: one vector per text, in order
Embeddings(texts) == [j \in 1..Len(texts) |-> EmbedVec(texts[j])]

\* the sizes of the chunk list in the runs with a session
SessionSizes == {2, 21}

MainStart(sizes) ==
    /\ pc = "embed_chunks"
    /\ \E n \in sizes : chunks = WebsiteChunks(n)
    /\ vectorizedChunks = <<>>
    /\ i = 0
    /\ MainIdle
    /\ text = <<>> /\ splitSize = 0 /\ overlapSize = 0 /\ tokens = <<>>
    /\ vecA = <<>> /\ vecB = <<>> /\ cosOut = NoCosOut
    /\ embedding = <<>> /\ searchOut = NoSearchOut
    /\ PostIdle

InitIngest == MainStart(1..MaxIngest)

InitMain == MainStart(SessionSizes)

otherVars == <<text, splitSize, overlapSize, tokens, cosVars, postVars>>

\* log.Fatal(err) after the failure of operation op
Fatal(op) == pc' = "fatal" /\ failure' = op

\* a run-time panic (index out of range) in operation op
Panic(op) == pc' = "panic" /\ failure' = op

\* Vectorized pairing the j-th embedding with the j-th chunk of the whole list
Vectorized_WholeMut(lo, hi) ==
    LET texts == Slice(chunks, lo, hi)
    IN [j \in 1..Len(texts) |->
           [Chunk |-> chunks[j], Vector |-> Embeddings(texts)[j]]]

\* the pairs appended for the texts chunks[lo:hi] and their embeddings
Vectorized(lo, hi) ==
    LET texts == Slice(chunks, lo, hi)
    IN [j \in 1..Len(texts) |->
           [Chunk |-> texts[j], Vector |-> Embeddings(texts)[j]]]

\* len(chunks) <= 20: one co.Embed call with all the chunks
EmbedAll ==
    /\ pc = "embed_chunks"
    /\ Len(chunks) <= BatchSize
    /\ batches' = Append(batches, [from |-> 0, to |-> Len(chunks)])
    /\ \/ /\ vectorizedChunks' = vectorizedChunks \o Vectorized(0, Len(chunks))
          /\ pc' = "read"
          /\ UNCHANGED failure
       \/ Fatal("ingest") /\ UNCHANGED vectorizedChunks
       \/ Panic("ingest") /\ UNCHANGED vectorizedChunks
    /\ UNCHANGED <<chunks, i, embedding, searchOut, convo, input, calls,
                   completion, printed, otherVars>>

\* len(chunks) > 20: one iteration of the loop for i := 0; i < len(chunks); i += 20
EmbedBatch ==
    /\ pc = "embed_chunks"
    /\ Len(chunks) > BatchSize
    /\ i < Len(chunks)
    /\ LET end == IF i + BatchSize > Len(chunks) THEN Len(chunks) ELSE i + BatchSize
       IN /\ batches' = Append(batches, [from |-> i, to |-> end])
          /\ \/ /\ vectorizedChunks' = vectorizedChunks \o Vectorized(i, end)
                /\ i' = i + BatchSize
                /\ UNCHANGED <<pc, failure>>
             \/ Fatal("ingest") /\ UNCHANGED <<vectorizedChunks, i>>
             \/ Panic("ingest") /\ UNCHANGED <<vectorizedChunks, i>>
    /\ UNCHANGED <<chunks, embedding, searchOut, convo, input, calls,
                   completion, printed, otherVars>>

\* the loop condition i < len(chunks) fails: the session starts
EmbedDone ==
    /\ pc = "embed_chunks"
    /\ Len(chunks) > BatchSize
    /\ i >= Len(chunks)
    /\ pc' = "read"
    /\ UNCHANGED <<chunks, i, vectorizedChunks, embedding, searchOut, mainVars,
                   otherVars>>

NextIngest == EmbedAll \/ EmbedBatch \/ EmbedDone

SpecIngest == InitIngest /\ [][NextIngest]_vars

----------------------------------------------------------------------------
(* main: the session loop, getRAGAnswer and getChatAnswer                   *)

Uppers == <<"A", "B", "C", "D", "E", "F", "G", "H", "I", "J", "K", "L", "M",
            "N", "O", "P", "Q", "R", "S", "T", "U", "V", "W", "X", "Y", "Z">>
Lowers == <<"a", "b", "c", "d", "e", "f", "g", "h", "i", "j", "k", "l", "m",
            "n", "o", "p", "q", "r", "s", "t", "u", "v", "w", "x", "y", "z">>

LowerOf(c) ==
    IF \E k \in 1..Len(Uppers) : Uppers[k] = c
    THEN Lowers[CHOOSE k \in 1..Len(Uppers) : Uppers[k] = c]
    ELSE c

\* strings.ToLower(s)
ToLower(s) == [k \in 1..Len(s) |-> LowerOf(s[k])]

ExitWord == <<"e", "x", "i", "t">>

\* the lines typed by the user
Lines ==
    { <<"h", "i">>, <<"e", "x", "i", "t", "s">>,
      ExitWord, <<"E", "x", "i", "t">>, <<"E", "X", "I", "T">> }

\* the value of input after scanner.Scan() returned false
EndOfInput == <<"<EOF>">>

Yes == <<"y", "e", "s">>

\* the first choices of the responses to the classification request
ClassChoices ==
    { [text |-> Yes, status |-> "success"],
      [text |-> Yes, status |-> "error"],
      [text |-> <<"n", "o">>, status |-> "success"],
      [text |-> <<"Y", "e", "s">>, status |-> "success"] }

\* the first choices of the responses to the answer requests
AnswerChoices ==
    { [text |-> <<" ", "a", "#", "b">>, status |-> "success"],
      [text |-> <<" ", "a", "#", "b">>, status |-> "error"] }

\* the embeddings of the user input returned by the embedding service
QueryVecs == { <<1, 0>>, <<0, 0>> }

\* the record of one remote call or search of the turn
Call(kind, prompt, outcome, choice) ==
    [kind |-> kind, prompt |-> prompt, outcome |-> outcome,
     text |-> choice.text, status |-> choice.status]

NoChoice == [text |-> <<>>, status |-> "none"]

\* a prompt: the template and the two strings formatted into it
Prompt(template, context, question) ==
    [template |-> template, context |-> context, input |-> question]

\* qAPromptTemplate(context, question)
qAPromptTemplate(context, question) == Prompt("qa", context, question)

\* the number of chat contexts put in the chat prompt
ContextTurns == 3

HumanLabel == <<"H", "u", "m", "a", "n", ":", " ">>
AILabel == <<"\n", "A", "I", ":", " ">>
TurnEnd == <<"\n", "\n">>

\* "Human: " + fc.You + "\nAI: " + fc.AI + "\n\n"
FormatContext(fc) == HumanLabel \o fc.You \o AILabel \o fc.AI \o TurnEnd

RECURSIVE FormatContexts(_)
FormatContexts(fcs) ==
    IF Len(fcs) = 0 THEN <<>>
    ELSE FormatContext(Head(fcs)) \o FormatContexts(Tail(fcs))

\* filteredContextString with beg := len(context) - 2
FilteredContextString_OffMut(context) ==
    LET beg == IF Len(context) - 2 < 0 THEN 0 ELSE Len(context) - 2
    IN FormatContexts(Slice(context, beg, Len(context)))

\* filteredContextString of getChatAnswer
FilteredContextString(context) ==
    LET beg == IF Len(context) - ContextTurns < 0 THEN 0
               ELSE Len(context) - ContextTurns
    IN FormatContexts(Slice(context, beg, Len(context)))

sessionFrame == <<chunks, i, vectorizedChunks, batches, otherVars>>

\* ReadLine comparing the line with "exit" without strings.ToLower
ReadLine_CaseMut ==
    /\ pc = "read"
    /\ Len(convo) < MaxTurns
    /\ \E line \in Lines :
          /\ input' = line
          /\ pc' = IF line = ExitWord THEN "exited" ELSE "classify"
    /\ calls' = <<>>
    /\ completion' = <<>>
    /\ UNCHANGED <<convo, printed, failure, embedding, searchOut, sessionFrame>>

\* scanner.Scan() returns a line: break on "exit", else start the turn
ReadLine ==
    /\ pc = "read"
    /\ Len(convo) < MaxTurns
    /\ \E line \in Lines :
          /\ input' = line
          /\ pc' = IF ToLower(line) = ExitWord THEN "exited" ELSE "classify"
    /\ calls' = <<>>
    /\ completion' = <<>>
    /\ UNCHANGED <<convo, printed, failure, embedding, searchOut, sessionFrame>>

\* scanner.Scan() returns false: break
ReadEnd ==
    /\ pc = "read"
    /\ input' = EndOfInput
    /\ pc' = "exited"
    /\ calls' = <<>>
    /\ completion' = <<>>
    /\ UNCHANGED <<convo, printed, failure, embedding, searchOut, sessionFrame>>

\* Classify taking the Retrieval path for every text other than "no"
Classify_RouteMut ==
    /\ pc = "classify"
    /\ LET prompt == Prompt("classify", <<>>, input)
       IN \/ /\ calls' = Append(calls, Call("classify", prompt, "err", NoChoice))
             /\ Fatal("classify")
          \/ /\ calls' = Append(calls, Call("classify", prompt, "empty", NoChoice))
             /\ Panic("classify")
          \/ \E c \in ClassChoices :
                /\ calls' = Append(calls, Call("classify", prompt, "choice", c))
                /\ pc' = IF c.text # <<"n", "o">> THEN "rag_embed" ELSE "chat"
                /\ UNCHANGED failure
    /\ UNCHANGED <<convo, input, completion, printed, embedding, searchOut,
                   sessionFrame>>

\* the classification request of main and the switch on its first choice
Classify ==
    /\ pc = "classify"
    /\ LET prompt == Prompt("classify", <<>>, input)
       IN \/ /\ calls' = Append(calls, Call("classify", prompt, "err", NoChoice))
             /\ Fatal("classify")
          \/ /\ calls' = Append(calls, Call("classify", prompt, "empty", NoChoice))
             /\ Panic("classify")
          \/ \E c \in ClassChoices :
                /\ calls' = Append(calls, Call("classify", prompt, "choice", c))
                /\ pc' = IF c.text = Yes THEN "rag_embed" ELSE "chat"
                /\ UNCHANGED failure
    /\ UNCHANGED <<convo, input, completion, printed, embedding, searchOut,
                   sessionFrame>>

\* getRAGAnswer: embed(input, co)
RagEmbed ==
    /\ pc = "rag_embed"
    /\ \/ /\ calls' = Append(calls, Call("embed", input, "err", NoChoice))
          /\ Fatal("embed")
          /\ UNCHANGED embedding
       \/ /\ calls' = Append(calls, Call("embed", input, "empty", NoChoice))
          /\ Panic("embed")
          /\ UNCHANGED embedding
       \/ \E v \in QueryVecs :
             /\ calls' = Append(calls, Call("embed", input, "vector", NoChoice))
             /\ embedding' = v
             /\ pc' = "rag_search"
             /\ UNCHANGED failure
    /\ UNCHANGED <<convo, input, completion, printed, searchOut, sessionFrame>>

\* RagSearch going on to the completion request when search fails
RagSearch_IgnoreMut ==
    /\ pc = "rag_search"
    /\ LET r == search(vectorizedChunks, embedding)
       IN /\ searchOut' = r
          /\ calls' = Append(calls, Call("search", embedding,
                                         IF r.err = NilErr THEN "chunk" ELSE "err",
                                         NoChoice))
          /\ pc' = "rag_complete"
          /\ UNCHANGED failure
    /\ UNCHANGED <<convo, input, completion, printed, embedding, sessionFrame>>

\* getRAGAnswer: search(chunks, embedding)
RagSearch ==
    /\ pc = "rag_search"
    /\ LET r == search(vectorizedChunks, embedding)
       IN /\ searchOut' = r
          /\ calls' = Append(calls, Call("search", embedding,
                                         IF r.err = NilErr THEN "chunk" ELSE "err",
                                         NoChoice))
          /\ IF r.err = NilErr
             THEN pc' = "rag_complete" /\ UNCHANGED failure
             ELSE Fatal("search")
    /\ UNCHANGED <<convo, input, completion, printed, embedding, sessionFrame>>

\* getRAGAnswer: the completion request and the post-processing
RagComplete ==
    /\ pc = "rag_complete"
    /\ LET prompt == qAPromptTemplate(searchOut.chunk, input)
       IN \/ /\ calls' = Append(calls, Call("complete_rag", prompt, "err", NoChoice))
             /\ Fatal("complete_rag")
             /\ UNCHANGED completion
          \/ /\ calls' = Append(calls, Call("complete_rag", prompt, "empty", NoChoice))
             /\ Panic("complete_rag")
             /\ UNCHANGED completion
          \/ \E c \in AnswerChoices :
                /\ calls' = Append(calls, Call("complete_rag", prompt, "choice", c))
                /\ completion' = PostProcess(c.text, StopFull)
                /\ pc' = "print"
                /\ UNCHANGED failure
    /\ UNCHANGED <<convo, input, printed, embedding, searchOut, sessionFrame>>

\* getChatAnswer: the completion request; the first choice text is returned
ChatComplete ==
    /\ pc = "chat"
    /\ LET prompt == Prompt("chat", FilteredContextString(convo), input)
       IN \/ /\ calls' = Append(calls, Call("complete_chat", prompt, "err", NoChoice))
             /\ Fatal("complete_chat")
             /\ UNCHANGED completion
          \/ /\ calls' = Append(calls, Call("complete_chat", prompt, "empty", NoChoice))
             /\ Panic("complete_chat")
             /\ UNCHANGED completion
          \/ \E c \in AnswerChoices :
                /\ calls' = Append(calls, Call("complete_chat", prompt, "choice", c))
                /\ completion' = c.text
                /\ pc' = "print"
                /\ UNCHANGED failure
    /\ UNCHANGED <<convo, input, printed, embedding, searchOut, sessionFrame>>

\* PrintAppend keeping the last three chat contexts only
PrintAppend_KeepMut ==
    /\ pc = "print"
    /\ printed' = Append(printed, completion)
    /\ convo' = LET all == Append(convo, [You |-> input, AI |-> completion])
                IN IF Len(all) > ContextTurns
                   THEN SubSeq(all, Len(all) - ContextTurns + 1, Len(all))
                   ELSE all
    /\ pc' = "read"
    /\ UNCHANGED <<input, calls, completion, failure, embedding, searchOut,
                   sessionFrame>>

\* the answer is printed and the chat context is appended to convo
PrintAppend ==
    /\ pc = "print"
    /\ printed' = Append(printed, completion)
    /\ convo' = Append(convo, [You |-> input, AI |-> completion])
    /\ pc' = "read"
    /\ UNCHANGED <<input, calls, completion, failure, embedding, searchOut,
                   sessionFrame>>

NextMain ==
    \/ EmbedAll \/ EmbedBatch \/ EmbedDone
    \/ ReadLine \/ ReadEnd \/ Classify
    \/ RagEmbed \/ RagSearch \/ RagComplete \/ ChatComplete \/ PrintAppend

SpecMain == InitMain /\ [][NextMain]_vars

----------------------------------------------------------------------------
(* Claims about main *)

Kinds(cs) == [k \in 1..Len(cs) |-> cs[k].kind]

RagKinds == <<"classify", "embed", "search", "complete_rag">>
ChatKinds == <<"classify", "complete_chat">>

IsPrefix(p, q) == Len(p) <= Len(q) /\ \A k \in 1..Len(p) : p[k] = q[k]

\* C13: in a turn the first call is the one classification call; a path
\* starts only after its response; the calls that follow are those of the
\* Retrieval path if the first choice text is exactly "yes" and the one of the
\* Chat path for every other text.
C13_ClassifyThenOnePath ==
    /\ (calls # <<>>) =>
          /\ calls[1].kind = "classify"
          /\ \A k \in 2..Len(calls) : calls[k].kind # "classify"
          /\ (Len(calls) >= 2) =>
                /\ calls[1].outcome = "choice"
                /\ IF calls[1].text = Yes
                   THEN IsPrefix(Kinds(calls), RagKinds)
                   ELSE Kinds(calls) = ChatKinds
    /\ (pc \in {"rag_embed", "rag_search", "rag_complete", "chat", "print"}) =>
          (calls # <<>> /\ calls[1].outcome = "choice")
    /\ (pc \in {"rag_embed", "rag_search", "rag_complete"}) => calls[1].text = Yes
    /\ (pc = "chat") => (Len(calls) = 1 /\ calls[1].text # Yes)
    /\ (pc = "print") =>
          Kinds(calls) = IF calls[1].text = Yes THEN RagKinds ELSE ChatKinds

C13_Witness ==
    /\ pc = "print"
    /\ calls[1].text = <<"Y", "e", "s">>
    /\ Kinds(calls) = ChatKinds
    /\ Len(convo) >= 1

\* C14: on the Chat path the completion text is cut at the stop markers and
\* trimmed before it is returned, printed and appended to the chat log.
C14_ChatPostProcessed ==
    (pc = "print" /\ calls[Len(calls)].kind = "complete_chat") =>
        completion = PostProcess(calls[Len(calls)].text, StopFull)

\* the chat contexts k.. of the log, each as its user utterance followed by
\* its assistant utterance
RECURSIVE TurnsFrom(_)
TurnsFrom(k) ==
    IF k > Len(convo) THEN <<>>
    ELSE HumanLabel \o convo[k].You \o AILabel \o convo[k].AI \o TurnEnd
         \o TurnsFrom(k + 1)

\* C15: the transcript in the prompt of getChatAnswer is made of the last
\* min(3, n) turns of the n-turn chat log, in order, and of no older turn.
C15_LastThreeTurns ==
    (pc \in {"print", "fatal", "panic"}) =>
        \A k \in 1..Len(calls) :
            (calls[k].kind = "complete_chat") =>
                calls[k].prompt.context =
                    TurnsFrom(Len(convo) - Min(3, Len(convo)) + 1)

C15_Witness ==
    /\ pc = "print"
    /\ calls[Len(calls)].kind = "complete_chat"
    /\ Len(convo) = 4
    /\ convo[1] # convo[2]
    /\ convo[2].You # convo[3].You
    /\ convo[3].AI # convo[4].AI

\* C16: the chat log starts empty; a step either leaves it alone or is the end
\* of a turn, which appends the one entry (input, printed answer); so the log
\* holds the completed turns in order, with the answers that were printed.
C16_AppendOnly ==
    /\ [](/\ (pc = "embed_chunks") => convo = <<>>
          /\ Len(printed) = Len(convo)
          /\ \A k \in 1..Len(convo) : convo[k].AI = printed[k])
    /\ [][\/ (pc # "print" /\ convo' = convo /\ printed' = printed)
          \/ /\ pc = "print"
             /\ convo' = Append(convo, [You |-> input, AI |-> completion])
             /\ printed' = Append(printed, completion)]_vars

C16_Witness ==
    /\ pc = "read"
    /\ Len(convo) = 3
    /\ \E k \in 1..3 : convo[k].AI = <<"a">>
    /\ \E k \in 1..3 : convo[k].AI = <<" ", "a", "#", "b">>
    /\ convo[1].You # convo[3].You

\* the line is "exit" in some letter case
IsExitLine(l) ==
    /\ Len(l) = 4
    /\ l[1] \in {"e", "E"} /\ l[2] \in {"x", "X"}
    /\ l[3] \in {"i", "I"} /\ l[4] \in {"t", "T"}

\* C17: the loop ends exactly on a line equal to "exit" in any letter case or
\* at the end of the input, with no call issued and no turn appended for it,
\* and nothing runs afterwards; every other line starts a turn.
C17_ExitEndsSession ==
    /\ [][(pc = "read") =>
             /\ (pc' = "exited") <=> (input' = EndOfInput \/ IsExitLine(input'))
             /\ (pc' = "exited") =>
                   (calls' = <<>> /\ convo' = convo /\ printed' = printed)
             /\ (pc' # "exited") => (pc' = "classify" /\ calls' = <<>>)]_vars
    /\ [][pc # "exited"]_vars

C17_Witness ==
    /\ pc = "exited"
    /\ input = <<"E", "X", "I", "T">>
    /\ Len(convo) >= 1
    /\ calls = <<>>

\* C18: the chunks are embedded by sequential calls of 1 to 20 consecutive
\* chunks each, one call for N <= 20 and ceil(N/20) calls otherwise, that
\* partition the chunk list in order; afterwards the corpus has N entries and
\* entry k pairs chunk k with the vector returned for chunk k.
C18_BatchedIngestion ==
    (pc = "read") =>
        LET n == Len(chunks)
        IN /\ Len(batches) = IF n <= 20 THEN 1 ELSE (n + 19) \div 20
           /\ batches[1].from = 0
           /\ batches[Len(batches)].to = n
           /\ \A k \in 1..Len(batches) :
                 /\ 1 <= batches[k].to - batches[k].from
                 /\ batches[k].to - batches[k].from <= 20
                 /\ (k < Len(batches)) => batches[k + 1].from = batches[k].to
           /\ Len(vectorizedChunks) = n
           /\ \A k \in 1..n :
                 vectorizedChunks[k] =
                     [Chunk |-> chunks[k], Vector |-> EmbedVec(chunks[k])]

C18_Witness ==
    /\ pc = "read"
    /\ Len(chunks) = 41
    /\ Len(batches) = 3
    /\ batches[3] = [from |-> 40, to |-> 41]
    /\ Len(vectorizedChunks) = 41

\* C19: the first failure of a remote call or of the search is fatal: the run
\* stops there, the failed operation is issued once, no answer of the turn is
\* printed or appended, the session runs only with all the chunks embedded;
\* a failed query embedding is followed by no search and no completion call, a
\* failed search by no completion call.
C19_FirstFailureFatal ==
    /\ [](/\ (pc # "embed_chunks" /\ failure # "ingest") =>
                Len(vectorizedChunks) = Len(chunks)
          /\ (failure = "ingest") =>
                (convo = <<>> /\ calls = <<>> /\ printed = <<>>)
          /\ \A j, k \in 1..Len(batches) : j < k => batches[j] # batches[k]
          /\ \A j, k \in 1..Len(calls) : j < k => calls[j].kind # calls[k].kind
          /\ \A k \in 1..Len(calls) :
                (calls[k].outcome = "err") =>
                    /\ k = Len(calls)
                    /\ pc = "fatal"
                    /\ failure = calls[k].kind
                    /\ completion = <<>>
          /\ (pc = "fatal" /\ failure = "embed") =>
                Kinds(calls) = <<"classify", "embed">>
          /\ (pc = "fatal" /\ failure = "search") =>
                Kinds(calls) = <<"classify", "embed", "search">>
          /\ Len(printed) = Len(convo))
    /\ [][pc # "fatal"]_vars

C19_Witness ==
    /\ pc = "fatal"
    /\ failure = "search"
    /\ Len(chunks) = 21
    /\ Len(convo) >= 1
    /\ Len(printed) = Len(convo)

\* C20: a first choice whose status is not "success" is treated as an error:
\* the run ends there and its text is not used for routing, post-processing,
\* printing or the chat log.
C20_StatusChecked ==
    \A k \in 1..Len(calls) :
        (calls[k].outcome = "choice" /\ calls[k].status # "success") =>
            (pc = "fatal" /\ k = Len(calls))

\* C23: a response that decodes with an empty list of choices or of
\* embeddings is an error returned to the caller, which ends the run as a
\* failure of that call; reading the first element never crashes the process.
C23_EmptyListIsError ==
    \A k \in 1..Len(calls) :
        (calls[k].outcome = "empty") => (pc = "fatal" /\ failure = calls[k].kind)

----------------------------------------------------------------------------

Init == InitSplit \/ InitCos \/ InitSearch \/ InitPost \/ InitStops \/ InitMain

Next ==
    \/ SplitCall \/ SplitLoop \/ SplitPanic \/ SplitReturn
    \/ CosCall \/ SearchCall \/ PostCall
    \/ EmbedAll \/ EmbedBatch \/ EmbedDone
    \/ ReadLine \/ ReadEnd \/ Classify
    \/ RagEmbed \/ RagSearch \/ RagComplete \/ ChatComplete \/ PrintAppend

Spec == Init /\ [][Next]_vars

====
